---- MODULE Spec2Model ----
(***************************************************************************)
(* A model of the resume builder's application state (src/App.tsx), its    *)
(* local-storage persistence and its calls to the generative-AI service    *)
(* (src/services/geminiService.ts).                                        *)
(*                                                                         *)
(* Every JavaScript string is a sequence of tokens (<<>> is the empty      *)
(* string), an object is a function from its property names to values, an *)
(* absent property and a property holding undefined are the same thing,    *)
(* and an object that may be null is NULL or Some(object).  One action is  *)
(* one event handler, or one continuation of an awaited promise, together  *)
(* with the re-render and the effects that React runs before the next      *)
(* event is handled.                                                       *)
(***************************************************************************)
EXTENDS Integers, Sequences, FiniteSets, TLC

VARIABLES
  mounted,              \* FALSE until the mount effects have run
  profiles,             \* useState<Profile[]>
  currentProfileId,     \* useState<string | null>
  currentResumeData,    \* useState<ResumeData>
  manualApiKey,         \* useState<string>
  effectiveApiKey,      \* useState<string | null>
  jobDescription,       \* useState<string>
  loadingTailor,        \* useState<boolean>
  tailorError,          \* useState<string | null>
  isLengthModalVisible, \* useState<boolean>
  matchAnalysis,        \* useState<GeminiMatchAnalysisResponse | null>
  loadingAnalysis,      \* useState<boolean>
  analysisError,        \* useState<string | null>
  appliedSuggestions,   \* useState<string[]>
  enhanceModal,         \* the ProjectEnhancementModal instance, or NULL
  uploadModal,          \* the ResumeUploadModal instance, or NULL
  storage,              \* window.localStorage
  tailorReqs,           \* the pending generateTailoredResume calls
  analysisReqs,         \* the pending analyzeResumeJobMatch calls
  extractReqs,          \* the pending extractResumeData calls
  nextId,               \* how many ids generateId has handed out
  calls,                \* how many AI calls have been issued
  lastOp,               \* history: the handler that ran last
  returned,             \* history: what the last AI call gave its caller
  unloaded              \* history: what the page held when it was reloaded

appVars == <<profiles, currentProfileId, currentResumeData>>
keyVars == <<manualApiKey, effectiveApiKey>>
tailorVars == <<loadingTailor, tailorError, isLengthModalVisible, tailorReqs>>
analysisVars == <<matchAnalysis, loadingAnalysis, analysisError,
                  appliedSuggestions, analysisReqs>>
modalVars == <<enhanceModal, uploadModal, extractReqs>>
vars == <<mounted, appVars, keyVars, jobDescription, tailorVars, analysisVars,
          modalVars, storage, nextId, calls, lastOp, returned,
          unloaded>>

-----------------------------------------------------------------------------
(* Bounds of the model *)

MaxProfiles == 2
MaxProjects == 2
MaxEducation == 1
MaxIds == 4
MaxTextLen == 3
MaxExtractReqs == 1
MaxCalls == 2

-----------------------------------------------------------------------------
(* JavaScript values *)

NULL == <<"null">>
UNDEF == <<"undefined">>

\* a non-null object held where null may be held
Some(v) == <<"some", v>>
The(o) == o[2]

Has(o, k) == k \in DOMAIN o
Get(o, k) == IF k \in DOMAIN o THEN o[k] ELSE UNDEF

\* !!v
Truthy(v) == v \notin {NULL, UNDEF, <<>>}

\* { ...a, ...b }
Spread(a, b) ==
  [k \in (DOMAIN a) \cup (DOMAIN b) |-> IF k \in DOMAIN b THEN b[k] ELSE a[k]]

\* an object literal some of whose values may be undefined
Defined(o) == [k \in {j \in DOMAIN o : o[j] # UNDEF} |-> o[k]]

Whitespace == {" ", "\n"}

RECURSIVE TrimStart(_)
TrimStart(s) ==
  IF s # <<>> /\ Head(s) \in Whitespace THEN TrimStart(Tail(s)) ELSE s

RECURSIVE TrimEnd(_)
TrimEnd(s) ==
  IF s # <<>> /\ s[Len(s)] \in Whitespace
  THEN TrimEnd(SubSeq(s, 1, Len(s) - 1)) ELSE s

\* String.prototype.trim
Trim(s) == TrimEnd(TrimStart(s))

\* Array.prototype.map
Map(s, F(_)) == [i \in 1..Len(s) |-> F(s[i])]

\* Array.prototype.findIndex, 0 standing for -1
RECURSIVE FindIndexFrom(_, _, _)
FindIndexFrom(s, Test(_), i) ==
  IF i > Len(s) THEN 0
  ELSE IF Test(s[i]) THEN i ELSE FindIndexFrom(s, Test, i + 1)

FindIndex(s, Test(_)) == FindIndexFrom(s, Test, 1)

Ids(s) == [i \in 1..Len(s) |-> Get(s[i], "id")]
Elems(s) == {s[i] : i \in 1..Len(s)}

\* generateId: the n-th id handed out
\* s without its i-th element
Without(s, i) == SubSeq(s, 1, i - 1) \o SubSeq(s, i + 1, Len(s))

GenId(n) == <<ToString(n)>>

-----------------------------------------------------------------------------
(* src/types.ts and src/constants.ts *)

PersonalInfoFields == {"name", "phoneNumber", "email", "linkedin", "portfolio"}
EducationFields ==
  {"id", "degree", "university", "location", "startDate", "endDate", "gpa"}
ProjectFields ==
  {"id", "companyName", "location", "startDate", "endDate", "role",
   "description", "responsibilities", "tools"}
EnhancementFields ==
  {"enhancedDescription", "enhancedResponsibilities", "enhancedTools",
   "suggestedDatabase", "suggestedCloud", "suggestedDashboard"}
EnhancedProjectFields == ProjectFields \cup EnhancementFields

INITIAL_PERSONAL_INFO == [f \in PersonalInfoFields |-> <<>>]
INITIAL_EDUCATION ==
  [f \in EducationFields |-> IF f = "id" THEN <<"edu-1">> ELSE <<>>]
INITIAL_PROJECT ==
  [f \in ProjectFields |-> IF f = "id" THEN <<"proj-1">> ELSE <<>>]
INITIAL_RESUME_DATA ==
  [personalInfo |-> INITIAL_PERSONAL_INFO, education |-> <<>>,
   internship |-> NULL, projects |-> <<>>, summary |-> <<>>, skills |-> <<>>]
DEFAULT_PROFILE_NAME == <<"New Profile">>
UPLOADED_PROFILE_NAME == <<"Uploaded Resume">>

-----------------------------------------------------------------------------
(* JSON.stringify and JSON.parse of the profiles list.  A JSON text is     *)
(* modelled by its syntax tree: a string is quoted, an array is its items, *)
(* an object is its members; a member whose value is undefined is left     *)
(* out, null is the literal null.                                          *)

Quote == "\""
JsonString(t) == <<Quote>> \o t \o <<Quote>>
UnJsonString(j) == SubSeq(j, 2, Len(j) - 1)
JsonNull == <<"literal null">>

JsonTextObject(o) ==
  [k \in {j \in DOMAIN o : o[j] # UNDEF} |-> JsonString(o[k])]
UnJsonTextObject(j) == [k \in DOMAIN j |-> UnJsonString(j[k])]

JsonResumeMember(k, v) ==
  CASE k = "personalInfo" -> JsonTextObject(v)
    [] k \in {"education", "projects"} ->
         [i \in 1..Len(v) |-> JsonTextObject(v[i])]
    [] k = "skills" -> [i \in 1..Len(v) |-> JsonString(v[i])]
    [] k = "internship" -> JsonNull
    [] OTHER -> JsonString(v)

UnJsonResumeMember(k, j) ==
  CASE k = "personalInfo" -> UnJsonTextObject(j)
    [] k \in {"education", "projects"} ->
         [i \in 1..Len(j) |-> UnJsonTextObject(j[i])]
    [] k = "skills" -> [i \in 1..Len(j) |-> UnJsonString(j[i])]
    [] k = "internship" -> NULL
    [] OTHER -> UnJsonString(j)

JsonResumeData(r) == [k \in DOMAIN r |-> JsonResumeMember(k, r[k])]
UnJsonResumeData(j) == [k \in DOMAIN j |-> UnJsonResumeMember(k, j[k])]

JsonProfile(p) ==
  [id |-> JsonString(p.id), name |-> JsonString(p.name),
   resumeData |-> JsonResumeData(p.resumeData)]
UnJsonProfile(j) ==
  [id |-> UnJsonString(j.id), name |-> UnJsonString(j.name),
   resumeData |-> UnJsonResumeData(j.resumeData)]

\* JSON.stringify(profiles)
Stringify(ps) == <<"json", [i \in 1..Len(ps) |-> JsonProfile(ps[i])]>>
\* JSON.parse(savedProfiles)
Parse(text) == [i \in 1..Len(text[2]) |-> UnJsonProfile(text[2][i])]

EmptyStorage ==
  [resumeProfiles |-> NULL, lastSelectedProfileId |-> NULL,
   gemini_api_key |-> NULL]

-----------------------------------------------------------------------------
(* The effects of App *)

PersistProfilesOnly(st, ps, id) == [st EXCEPT !.resumeProfiles = Stringify(ps)]

\* useEffect(..., [profiles, currentProfileId]): persist
PersistEffect(st, ps, id) ==
  [st EXCEPT !.resumeProfiles = Stringify(ps),
             !.lastSelectedProfileId = IF Truthy(id) THEN id ELSE @]

\* useEffect(..., [currentProfileId, profiles]): show the current profile
SyncEffect(ps, id, data) ==
  LET i == FindIndex(ps, LAMBDA p : p.id = id)
  IN  IF i # 0 THEN ps[i].resumeData ELSE data

\* useEffect(..., [jobDescription, currentProfileId]): clear the analysis
ClearAnalysisEffect(changed, value, cleared) ==
  IF changed THEN cleared ELSE value

\* A render after a handler that called setProfiles (a new array each time)
\* or changed currentProfileId runs the persist and the sync effect; a
\* change of jobDescription or currentProfileId runs the clear effect.
Render(ps, profilesSet, id, data, jd, analysis, applied) ==
  LET deps == profilesSet \/ id # currentProfileId
      cleardeps == jd # jobDescription \/ id # currentProfileId
  IN  /\ profiles' = ps
      /\ currentProfileId' = id
      /\ jobDescription' = jd
      /\ currentResumeData' = IF deps THEN SyncEffect(ps, id, data) ELSE data
      /\ storage' = IF deps THEN PersistEffect(storage, ps, id) ELSE storage
      /\ matchAnalysis' = ClearAnalysisEffect(cleardeps, analysis, NULL)
      /\ appliedSuggestions' = ClearAnalysisEffect(cleardeps, applied, <<>>)

\* A render after a handler that leaves the analysis alone
RenderApp(ps, profilesSet, id, data) ==
  Render(ps, profilesSet, id, data, jobDescription, matchAnalysis,
         appliedSuggestions)

-----------------------------------------------------------------------------
(* Initial state: the useState initialisers, before any effect has run.   *)
(* What local storage holds at that moment is the environment's.          *)

StoredProfile(id, name) ==
  [id |-> id, name |-> name, resumeData |-> INITIAL_RESUME_DATA]

InitialStorages ==
  { EmptyStorage,
    [EmptyStorage EXCEPT !.resumeProfiles = Stringify(<<>>)],
    [EmptyStorage EXCEPT
       !.resumeProfiles =
          Stringify(<<StoredProfile(<<"s1">>, <<"A">>),
                      StoredProfile(<<"s2">>, <<"B">>)>>),
       !.lastSelectedProfileId = <<"s2">>],
    [EmptyStorage EXCEPT
       !.resumeProfiles =
          Stringify(<<StoredProfile(<<"s1">>, <<"A">>),
                      StoredProfile(<<"s2">>, <<"B">>)>>),
       !.lastSelectedProfileId = <<"gone">>,
       !.gemini_api_key = <<"k">>] }

\* A stored profile whose resume holds two projects and one education
WorkedResumeData ==
  [INITIAL_RESUME_DATA EXCEPT
     !.education = <<Spread(INITIAL_EDUCATION, [id |-> <<"e1">>])>>,
     !.projects = <<Spread(INITIAL_PROJECT, [id |-> <<"p1">>]),
                    Spread(INITIAL_PROJECT, [id |-> <<"p2">>])>>]

WorkedStorages ==
  { [resumeProfiles |->
       Stringify(<<[id |-> <<"s1">>, name |-> <<"A">>,
                    resumeData |-> WorkedResumeData],
                   StoredProfile(<<"s2">>, <<"B">>)>>),
     lastSelectedProfileId |-> <<"s1">>,
     gemini_api_key |-> <<"k">>] }

Unmounted ==
  /\ mounted = FALSE
  /\ profiles = <<>>
  /\ currentProfileId = NULL
  /\ currentResumeData = INITIAL_RESUME_DATA
  /\ manualApiKey = <<>>
  /\ effectiveApiKey = NULL
  /\ jobDescription = <<>>
  /\ loadingTailor = FALSE
  /\ tailorError = NULL
  /\ isLengthModalVisible = FALSE
  /\ matchAnalysis = NULL
  /\ loadingAnalysis = FALSE
  /\ analysisError = NULL
  /\ appliedSuggestions = <<>>
  /\ enhanceModal = NULL
  /\ uploadModal = NULL
  /\ tailorReqs = <<>>
  /\ analysisReqs = <<>>
  /\ extractReqs = <<>>

InitFrom(storages) ==
  /\ Unmounted
  /\ storage \in storages
  /\ nextId = 0
  /\ calls = 0
  /\ lastOp = "init"
  /\ returned = NULL
  /\ unloaded = NULL

Init == InitFrom(InitialStorages \cup WorkedStorages)

-----------------------------------------------------------------------------
(* Mounting and reloading *)

TextInputs == {<<"a">>}
NameInputs == {<<"R", " ">>}
JobDescriptionInputs == {<<" ">>, <<"j">>}
EnvApiKeys == {NULL, <<"envkey">>}

NewDefaultProfile(id) ==
  [id |-> id, name |-> DEFAULT_PROFILE_NAME, resumeData |-> INITIAL_RESUME_DATA]

FirstProfile(parsedProfiles, lastSelectedProfileId) == parsedProfiles[1]

\* The mount effect's choice of the profile to load
ProfileToLoad(parsedProfiles, lastSelectedProfileId) ==
  LET found == FindIndex(parsedProfiles,
                         LAMBDA p : p.id = lastSelectedProfileId)
  IN  IF Truthy(lastSelectedProfileId) /\ found # 0
      THEN parsedProfiles[found] ELSE parsedProfiles[1]

\* The mount effect's reading of local storage: what it hands to
\* setProfiles, setCurrentProfileId and setCurrentResumeData, what it writes
\* back to local storage, and how many ids it generated.
MountEffect(st, fresh) ==
  LET saved == st.resumeProfiles
      parsed == IF Truthy(saved) THEN Parse(saved) ELSE <<>>
      toLoad == ProfileToLoad(parsed, st.lastSelectedProfileId)
      newProfile == NewDefaultProfile(fresh)
  IN  IF Truthy(saved) /\ Len(parsed) > 0
      THEN [profiles |-> parsed, id |-> toLoad.id, data |-> toLoad.resumeData,
            storage |-> st, generated |-> 0]
      ELSE [profiles |-> <<newProfile>>, id |-> newProfile.id,
            data |-> newProfile.resumeData,
            storage |-> [st EXCEPT
                           !.resumeProfiles = Stringify(<<newProfile>>),
                           !.lastSelectedProfileId = newProfile.id],
            generated |-> 1]

\* The mount effect's choice of the API key
MountApiKey(st, env) ==
  IF Truthy(st.gemini_api_key) THEN st.gemini_api_key
  ELSE IF Truthy(env) THEN env ELSE NULL

\* The first render and its effects, in the order the component declares
\* them: the mount effect, then the persist effect and the sync effect with
\* the first render's profiles = [] and currentProfileId = null; then the
\* render of what the mount effect set, and its persist and sync effects.
MountWith(env) ==
  /\ ~mounted
  /\ nextId < MaxIds
  /\   LET m == MountEffect(storage, GenId(nextId + 1))
           first == PersistEffect(m.storage, <<>>, NULL)
       IN  /\ mounted' = TRUE
           /\ profiles' = m.profiles
           /\ currentProfileId' = m.id
           /\ currentResumeData' = SyncEffect(m.profiles, m.id, m.data)
           /\ storage' = PersistEffect(first, m.profiles, m.id)
           /\ effectiveApiKey' = MountApiKey(storage, env)
           /\ manualApiKey' = IF Truthy(storage.gemini_api_key)
                              THEN storage.gemini_api_key ELSE manualApiKey
           /\ nextId' = nextId + m.generated
  /\ lastOp' = "mount"
  /\ returned' = NULL
  /\ UNCHANGED <<jobDescription, tailorVars, analysisVars, modalVars,
                 calls, unloaded>>

\* The page is reloaded: the component state and every pending call are
\* gone, local storage stays.
Reload ==
  /\ mounted
  /\ mounted' = FALSE
  /\ profiles' = <<>>
  /\ currentProfileId' = NULL
  /\ currentResumeData' = INITIAL_RESUME_DATA
  /\ manualApiKey' = <<>>
  /\ effectiveApiKey' = NULL
  /\ jobDescription' = <<>>
  /\ loadingTailor' = FALSE
  /\ tailorError' = NULL
  /\ isLengthModalVisible' = FALSE
  /\ matchAnalysis' = NULL
  /\ loadingAnalysis' = FALSE
  /\ analysisError' = NULL
  /\ appliedSuggestions' = <<>>
  /\ enhanceModal' = NULL
  /\ uploadModal' = NULL
  /\ tailorReqs' = <<>>
  /\ analysisReqs' = <<>>
  /\ extractReqs' = <<>>
  /\ lastOp' = "reload"
  /\ returned' = NULL
  /\ unloaded' = Some([profiles |-> profiles,
                       currentProfileId |-> currentProfileId])
  /\ UNCHANGED <<storage, nextId, calls>>

-----------------------------------------------------------------------------
(* Handlers of App: API key, job description, profiles *)

Handled(op) ==
  /\ lastOp' = op
  /\ returned' = NULL
  /\ unloaded' = NULL
  /\ UNCHANGED mounted

handleManualApiKeyChange(value) ==
  /\ mounted
  /\ ~Truthy(effectiveApiKey)
  /\ manualApiKey' = value
  /\ Handled("handleManualApiKeyChange")
  /\ UNCHANGED <<appVars, effectiveApiKey, jobDescription, tailorVars,
                 analysisVars, modalVars, storage, nextId, calls>>

handleSaveApiKey ==
  /\ mounted
  /\ ~Truthy(effectiveApiKey)
  /\ LET trimmedKey == Trim(manualApiKey)
     IN  IF Truthy(trimmedKey)
         THEN /\ storage' = [storage EXCEPT !.gemini_api_key = trimmedKey]
              /\ effectiveApiKey' = trimmedKey
         ELSE /\ storage' = [storage EXCEPT !.gemini_api_key = NULL]
              /\ effectiveApiKey' = NULL
  /\ Handled("handleSaveApiKey")
  /\ UNCHANGED <<appVars, manualApiKey, jobDescription, tailorVars,
                 analysisVars, modalVars, nextId, calls>>

setJobDescription(value) ==
  /\ mounted
  /\ value # jobDescription
  /\ Render(profiles, FALSE, currentProfileId, currentResumeData, value,
            matchAnalysis, appliedSuggestions)
  /\ Handled("setJobDescription")
  /\ UNCHANGED <<keyVars, tailorVars, loadingAnalysis, analysisError,
                 analysisReqs, modalVars, nextId, calls>>

handleSelectProfile(id) ==
  /\ mounted
  /\ id # currentProfileId
  /\ RenderApp(profiles, FALSE, id, currentResumeData)
  /\ Handled("handleSelectProfile")
  /\ UNCHANGED <<keyVars, tailorVars, loadingAnalysis, analysisError,
                 analysisReqs, modalVars, nextId, calls>>

NewProfileFromCurrent(id, n) ==
  [id |-> id, name |-> <<"New Profile ", ToString(n)>>,
   resumeData |-> currentResumeData]

NewProfile(id, n) ==
  [id |-> id, name |-> <<"New Profile ", ToString(n)>>,
   resumeData |-> UnJsonResumeData(JsonResumeData(INITIAL_RESUME_DATA))]

handleNewProfile ==
  /\ mounted
  /\ Len(profiles) < MaxProfiles
  /\ nextId < MaxIds
  /\ LET newProfile == NewProfile(GenId(nextId + 1), Len(profiles) + 1)
     IN  RenderApp(Append(profiles, newProfile), TRUE, newProfile.id,
                   currentResumeData)
  /\ nextId' = nextId + 1
  /\ UNCHANGED calls
  /\ Handled("handleNewProfile")
  /\ UNCHANGED <<keyVars, tailorVars, loadingAnalysis, analysisError,
                 analysisReqs, modalVars>>

UpdateProfileName(ps, id, newName) ==
  Map(ps, LAMBDA p : IF p.id = id THEN [p EXCEPT !.name = newName] ELSE p)

\* ProfileSelector.handleSaveName, which calls handleUpdateProfileName
handleUpdateProfileName(id, typed) ==
  /\ mounted
  /\ Truthy(Trim(typed))
  /\ \E i \in 1..Len(profiles) : profiles[i].id = id /\ profiles[i].name # typed
  /\ RenderApp(UpdateProfileName(profiles, id, Trim(typed)), TRUE,
               currentProfileId, currentResumeData)
  /\ Handled("handleUpdateProfileName")
  /\ UNCHANGED <<keyVars, tailorVars, loadingAnalysis, analysisError,
                 analysisReqs, modalVars, nextId, calls>>

OnlyProfile(ps, id) == SelectSeq(ps, LAMBDA p : p.id = id)

\* profiles.filter(p => p.id !== id)
WithoutProfile(ps, id) == SelectSeq(ps, LAMBDA p : p.id # id)

handleDeleteProfileUnchecked(id) ==
  /\ mounted
  /\ LET filteredProfiles == WithoutProfile(profiles, id)
     IN  RenderApp(filteredProfiles, TRUE,
                   IF currentProfileId = id /\ filteredProfiles # <<>>
                   THEN filteredProfiles[1].id ELSE currentProfileId,
                   currentResumeData)
  /\ Handled("handleDeleteProfile")
  /\ UNCHANGED <<keyVars, tailorVars, loadingAnalysis, analysisError,
                 analysisReqs, modalVars, nextId, calls>>

handleDeleteProfileKeepsCurrent(id) ==
  /\ mounted
  /\ IF Len(profiles) = 1
     THEN UNCHANGED <<appVars, jobDescription, storage, matchAnalysis,
                      appliedSuggestions>>
     ELSE RenderApp(WithoutProfile(profiles, id), TRUE, currentProfileId,
                    currentResumeData)
  /\ Handled("handleDeleteProfile")
  /\ UNCHANGED <<keyVars, tailorVars, loadingAnalysis, analysisError,
                 analysisReqs, modalVars, nextId, calls>>

handleDeleteProfile(id) ==
  /\ mounted
  /\ IF Len(profiles) = 1
     THEN UNCHANGED <<appVars, jobDescription, storage, matchAnalysis,
                      appliedSuggestions>>
     ELSE LET filteredProfiles == WithoutProfile(profiles, id)
          IN  RenderApp(filteredProfiles, TRUE,
                        IF currentProfileId = id THEN filteredProfiles[1].id
                        ELSE currentProfileId,
                        currentResumeData)
  /\ Handled(IF Len(profiles) = 1 THEN "handleDeleteProfile alert"
             ELSE "handleDeleteProfile")
  /\ UNCHANGED <<keyVars, tailorVars, loadingAnalysis, analysisError,
                 analysisReqs, modalVars, nextId, calls>>

\* Two Delete clicks handled before React renders again: both calls of
\* handleDeleteProfile come from the same render and hold its profiles and
\* its currentProfileId, and their state updates are applied in the order
\* they were queued.
handleDeleteProfileTwice(id1, id2) ==
  /\ mounted
  /\ IF Len(profiles) = 1
     THEN UNCHANGED <<appVars, jobDescription, storage, matchAnalysis,
                      appliedSuggestions>>
     ELSE LET first == WithoutProfile(profiles, id1)
              second == WithoutProfile(profiles, id2)
          IN  RenderApp(second, TRUE,
                        IF currentProfileId = id2 THEN second[1].id
                        ELSE IF currentProfileId = id1 THEN first[1].id
                        ELSE currentProfileId,
                        currentResumeData)
  /\ Handled("handleDeleteProfile twice")
  /\ UNCHANGED <<keyVars, tailorVars, loadingAnalysis, analysisError,
                 analysisReqs, modalVars, nextId, calls>>

-----------------------------------------------------------------------------
(* Handlers of App: editing the current resume *)

UpdateResumeDataAll(id, newData) ==
  LET updatedData == Spread(currentResumeData, newData)
  IN  <<Map(profiles, LAMBDA p : [p EXCEPT !.resumeData = updatedData]),
        updatedData>>

\* updateResumeData, called from a render whose currentProfileId was id:
\* <<the new profiles, the new currentResumeData>>
UpdateResumeData(id, newData) ==
  LET updatedData == Spread(currentResumeData, newData)
  IN  <<Map(profiles, LAMBDA p : IF p.id = id
                                 THEN [p EXCEPT !.resumeData = updatedData]
                                 ELSE p),
        updatedData>>

\* A handler that calls updateResumeData from the current render
Edit(op, newData) ==
  /\ mounted
  /\ LET u == UpdateResumeData(currentProfileId, newData)
     IN  RenderApp(u[1], TRUE, currentProfileId, u[2])
  /\ Handled(op)
  /\ UNCHANGED <<keyVars, tailorVars, loadingAnalysis, analysisError,
                 analysisReqs>>

handlePersonalInfoChange(name, value) ==
  /\ Edit("handlePersonalInfoChange",
          [personalInfo |->
             Spread(currentResumeData.personalInfo, name :> value)])
  /\ UNCHANGED <<modalVars, nextId, calls>>

ReplaceByIdAtEnd(list, updated) ==
  Append(SelectSeq(list, LAMBDA x : Get(x, "id") # Get(updated, "id")), updated)

\* list.map(x => x.id === updated.id ? updated : x)
ReplaceById(list, updated) ==
  Map(list, LAMBDA x : IF Get(x, "id") = Get(updated, "id") THEN updated ELSE x)

\* list.filter(x => x.id !== id)
RemoveById(list, id) == SelectSeq(list, LAMBDA x : Get(x, "id") # id)

handleUpdateEducation(updatedEdu) ==
  /\ Edit("handleUpdateEducation",
          [education |-> ReplaceById(currentResumeData.education, updatedEdu)])
  /\ UNCHANGED <<modalVars, nextId, calls>>

handleAddEducation ==
  /\ Len(currentResumeData.education) < MaxEducation
  /\ nextId < MaxIds
  /\ Edit("handleAddEducation",
          [education |->
             Append(currentResumeData.education,
                    Spread(INITIAL_EDUCATION, [id |-> GenId(nextId + 1)]))])
  /\ nextId' = nextId + 1
  /\ UNCHANGED calls
  /\ UNCHANGED modalVars

handleRemoveEducation(id) ==
  /\ Edit("handleRemoveEducation",
          [education |-> RemoveById(currentResumeData.education, id)])
  /\ UNCHANGED <<modalVars, nextId, calls>>

handleUpdateProject(updatedProject) ==
  /\ Edit("handleUpdateProject",
          [projects |-> ReplaceById(currentResumeData.projects, updatedProject)])
  /\ UNCHANGED <<modalVars, nextId, calls>>

handleAddProject ==
  /\ Len(currentResumeData.projects) < MaxProjects
  /\ nextId < MaxIds
  /\ Edit("handleAddProject",
          [projects |->
             Append(currentResumeData.projects,
                    Spread(INITIAL_PROJECT, [id |-> GenId(nextId + 1)]))])
  /\ nextId' = nextId + 1
  /\ UNCHANGED calls
  /\ UNCHANGED modalVars

handleRemoveProject(id) ==
  /\ Edit("handleRemoveProject",
          [projects |-> RemoveById(currentResumeData.projects, id)])
  /\ UNCHANGED <<modalVars, nextId, calls>>

\* EducationForm.handleInputChange and ExperienceForm.handleProjectChange:
\* the record the form hands to onUpdateEducation / onUpdateProject
FormChange(list, id, name, value) ==
  LET i == FindIndex(list, LAMBDA x : Get(x, "id") = id)
  IN  Spread(list[i], name :> value)

-----------------------------------------------------------------------------
(* src/services/geminiService.ts.  What the hosted model does is the       *)
(* environment's: the call throws, or it yields a text.  A text is either  *)
(* no JSON at all or the JSON text of some value.                          *)

Threw(message) == [kind |-> "throws", message |-> message]
Garbage == [kind |-> "text", json |-> FALSE]
JsonText(value) == [kind |-> "text", json |-> TRUE, value |-> value]

NoKeyMessage == <<"API Key is not configured.">>
TypeErrorMessage == <<"Cannot read properties of undefined">>

Rejected(message) == [ok |-> FALSE, error |-> message]
Resolved(value) == [ok |-> TRUE, value |-> value]

\* The try/catch every service function wraps its call in: the parsed text
\* is returned as it is, a thrown error is rethrown with the function's own
\* message.
ServiceCall(failed, outcome) ==
  IF outcome.kind = "throws"
  THEN IF outcome.message = "API_KEY"
       THEN Rejected(<<"API Key is invalid or not configured. ",
                       "Please enter a valid API Key.">>)
       ELSE Rejected(<<failed, " Details: ", outcome.message>>)
  ELSE IF ~outcome.json
       THEN Rejected(<<failed, " Details: ", "Unexpected token">>)
       ELSE Resolved(outcome.value)

enhanceProject(apiKey, outcome) ==
  IF ~Truthy(apiKey) THEN Rejected(NoKeyMessage)
  ELSE ServiceCall("Failed to enhance project.", outcome)

generateTailoredResume(apiKey, jd, outcome) ==
  IF ~Truthy(apiKey) THEN Rejected(NoKeyMessage)
  ELSE IF ~Truthy(jd) \/ Trim(jd) = <<>>
       THEN Rejected(<<"Job description cannot be empty for tailoring ",
                       "the resume.">>)
  ELSE ServiceCall("Failed to generate tailored resume.", outcome)

extractResumeData(apiKey, rawResumeText, outcome) ==
  IF ~Truthy(apiKey) THEN Rejected(NoKeyMessage)
  ELSE IF ~Truthy(rawResumeText) \/ Trim(rawResumeText) = <<>>
       THEN Rejected(<<"Resume text cannot be empty for extraction.">>)
  ELSE ServiceCall("Failed to extract resume data.", outcome)

analyzeResumeJobMatch(apiKey, jd, outcome) ==
  IF ~Truthy(apiKey) THEN Rejected(NoKeyMessage)
  ELSE IF ~Truthy(jd) \/ Trim(jd) = <<>>
       THEN Rejected(<<"Job description cannot be empty for analysis.">>)
  ELSE ServiceCall("Failed to analyze resume match.", outcome)

\* The fields each response schema marks as required
TailoredRequired == {"summary", "skills", "enhancedProjects"}
TailoredProjectRequired == EnhancedProjectFields
ExtractionRequired ==
  {"personalInfo", "education", "projects", "summary", "skills"}
AnalysisRequired ==
  {"matchPercentage", "matchSummary", "missingKeywords",
   "improvementSuggestions"}
SuggestionRequired == {"projectId", "projectName", "suggestion"}
EnhancementRequired == EnhancementFields

-----------------------------------------------------------------------------
(* Tailoring: handleGenerateTailoredResume, ResumeLengthModal,             *)
(* startResumeGeneration                                                   *)

isApiKeyConfigured == Truthy(effectiveApiKey)
actionButtonDisabled == ~isApiKeyConfigured \/ ~Truthy(Trim(jobDescription))

\* disabled= of the Analyze Resume Match and the Generate Tailored Resume
\* buttons
analyzeDisabledUngated == actionButtonDisabled
analyzeDisabled == actionButtonDisabled \/ loadingAnalysis
tailorDisabled == actionButtonDisabled \/ loadingTailor

NoKeyError ==
  <<"API Key is not configured. Please enter your API Key below.">>

\* error.message || fallback
MessageOr(message, fallback) == IF Truthy(message) THEN message ELSE fallback

handleGenerateTailoredResumeUnchecked ==
  /\ mounted
  /\ isLengthModalVisible' = TRUE
  /\ UNCHANGED tailorError
  /\ Handled("handleGenerateTailoredResume")
  /\ UNCHANGED <<appVars, keyVars, jobDescription, loadingTailor, tailorReqs,
                 analysisVars, modalVars, storage, nextId, calls>>

handleGenerateTailoredResume ==
  /\ mounted
  /\ IF ~isApiKeyConfigured
     THEN tailorError' = NoKeyError /\ UNCHANGED isLengthModalVisible
     ELSE IF ~Truthy(Trim(jobDescription))
          THEN /\ tailorError' =
                    <<"Please paste a job description to tailor your resume.">>
               /\ UNCHANGED isLengthModalVisible
          ELSE isLengthModalVisible' = TRUE /\ UNCHANGED tailorError
  /\ Handled("handleGenerateTailoredResume")
  /\ UNCHANGED <<appVars, keyVars, jobDescription, loadingTailor, tailorReqs,
                 analysisVars, modalVars, storage, nextId, calls>>

\* ResumeLengthModal's Cancel
closeLengthModal ==
  /\ mounted
  /\ isLengthModalVisible
  /\ isLengthModalVisible' = FALSE
  /\ Handled("closeLengthModal")
  /\ UNCHANGED <<appVars, keyVars, jobDescription, loadingTailor, tailorError,
                 tailorReqs, analysisVars, modalVars, storage, nextId, calls>>

\* startResumeGeneration up to its await: the call is issued with the
\* render's effectiveApiKey, currentResumeData and jobDescription, and the
\* continuation keeps the render's currentProfileId for updateResumeData.
startResumeGeneration ==
  /\ mounted
  /\ isLengthModalVisible
  /\ isLengthModalVisible' = FALSE
  /\ IF ~Truthy(effectiveApiKey)
     THEN UNCHANGED <<loadingTailor, tailorError, tailorReqs, calls>>
     ELSE /\ calls < MaxCalls
          /\ calls' = calls + 1
          /\ loadingTailor' = TRUE
          /\ tailorError' = NULL
          /\ tailorReqs' = Append(tailorReqs,
                                  [apiKey |-> effectiveApiKey,
                                   resume |-> currentResumeData,
                                   jd |-> jobDescription,
                                   profileId |-> currentProfileId])
  /\ Handled("startResumeGeneration")
  /\ UNCHANGED <<appVars, keyVars, jobDescription, analysisVars, modalVars,
                 storage, nextId>>

MergeProjectOriginalWins(originalProject, ep) == Spread(ep, originalProject)

\* { ...originalProject, ...ep }
MergeProject(originalProject, ep) == Spread(originalProject, ep)

\* tailoredResponse.enhancedProjects.map(ep => ...)
TailorProjects(projects, enhancedProjects) ==
  Map(enhancedProjects,
      LAMBDA ep :
        LET i == FindIndex(projects, LAMBDA q : Get(q, "id") = Get(ep, "id"))
        IN  IF i # 0 THEN MergeProject(projects[i], ep) ELSE ep)

\* What the try block of startResumeGeneration hands to updateResumeData
TailoredData(resume, tailoredResponse) ==
  [summary |-> tailoredResponse.summary,
   skills |-> tailoredResponse.skills,
   projects |-> TailorProjects(resume.projects,
                               tailoredResponse.enhancedProjects)]

TailorFailedStillLoading(message) ==
  /\ tailorError' = message
  /\ UNCHANGED loadingTailor
  /\ UNCHANGED <<appVars, jobDescription, storage, matchAnalysis,
                 appliedSuggestions>>

\* The catch and finally blocks of startResumeGeneration
TailorFailed(message) ==
  /\ tailorError' =
       MessageOr(message,
                 <<"An unexpected error occurred during resume tailoring.">>)
  /\ loadingTailor' = FALSE
  /\ UNCHANGED <<appVars, jobDescription, storage, matchAnalysis,
                 appliedSuggestions>>

TailorSucceededStillLoading(req, tailoredResponse) ==
  /\ LET u == UpdateResumeData(req.profileId,
                               TailoredData(req.resume, tailoredResponse))
     IN  RenderApp(u[1], TRUE, currentProfileId, u[2])
  /\ tailorError' = NULL
  /\ UNCHANGED loadingTailor

\* The try and finally blocks of startResumeGeneration
TailorSucceeded(req, tailoredResponse) ==
  /\ LET u == UpdateResumeData(req.profileId,
                               TailoredData(req.resume, tailoredResponse))
     IN  RenderApp(u[1], TRUE, currentProfileId, u[2])
  /\ tailorError' = NULL
  /\ loadingTailor' = FALSE

\* startResumeGeneration from its await on
tailorSettled(i, outcome) ==
  /\ mounted
  /\ i \in 1..Len(tailorReqs)
  /\ tailorReqs' = Without(tailorReqs, i)
  /\ LET req == tailorReqs[i]
         result == generateTailoredResume(req.apiKey, req.jd, outcome)
     IN  /\ returned' = IF result.ok
                        THEN Some([call |-> "generateTailoredResume",
                                   value |-> result.value])
                        ELSE NULL
         /\ IF ~result.ok
            THEN TailorFailed(result.error) /\ lastOp' = "tailorRejected"
            ELSE IF ~Has(result.value, "enhancedProjects")
                 THEN TailorFailed(TypeErrorMessage) /\ lastOp' = "tailorThrew"
                 ELSE TailorSucceeded(req, result.value)
                      /\ lastOp' = "tailorMerged"
  /\ unloaded' = NULL
  /\ UNCHANGED <<mounted, keyVars, isLengthModalVisible, loadingAnalysis,
                 analysisError, analysisReqs, modalVars, nextId, calls>>

-----------------------------------------------------------------------------
(* Match analysis: handleAnalyzeMatch, handleApplySuggestion *)

handleAnalyzeMatch ==
  /\ mounted
  /\ IF ~isApiKeyConfigured \/ ~Truthy(effectiveApiKey)
     THEN /\ analysisError' = NoKeyError
          /\ UNCHANGED <<matchAnalysis, loadingAnalysis, appliedSuggestions,
                         analysisReqs, calls>>
     ELSE IF ~Truthy(Trim(jobDescription))
          THEN /\ analysisError' =
                    <<"Please paste a job description to analyze.">>
               /\ UNCHANGED <<matchAnalysis, loadingAnalysis,
                              appliedSuggestions, analysisReqs, calls>>
          ELSE /\ calls < MaxCalls
               /\ calls' = calls + 1
               /\ loadingAnalysis' = TRUE
               /\ analysisError' = NULL
               /\ matchAnalysis' = NULL
               /\ appliedSuggestions' = <<>>
               /\ analysisReqs' = Append(analysisReqs,
                                         [apiKey |-> effectiveApiKey,
                                          resume |-> currentResumeData,
                                          jd |-> jobDescription,
                                          profileId |-> currentProfileId])
  /\ Handled("handleAnalyzeMatch")
  /\ UNCHANGED <<appVars, keyVars, jobDescription, tailorVars, modalVars,
                 storage, nextId>>

\* handleAnalyzeMatch from its await on
analysisSettled(i, outcome) ==
  /\ mounted
  /\ i \in 1..Len(analysisReqs)
  /\ analysisReqs' = Without(analysisReqs, i)
  /\ LET req == analysisReqs[i]
         result == analyzeResumeJobMatch(req.apiKey, req.jd, outcome)
     IN  /\ returned' = IF result.ok
                        THEN Some([call |-> "analyzeResumeJobMatch",
                                   value |-> result.value])
                        ELSE NULL
         /\ IF result.ok
            THEN /\ matchAnalysis' = Some(result.value)
                 /\ UNCHANGED analysisError
                 /\ lastOp' = "analysisSet"
            ELSE /\ analysisError' =
                      MessageOr(
                        result.error,
                        <<"An unexpected error occurred during analysis.">>)
                 /\ UNCHANGED matchAnalysis
                 /\ lastOp' = "analysisRejected"
  /\ loadingAnalysis' = FALSE
  /\ unloaded' = NULL
  /\ UNCHANGED <<mounted, appVars, keyVars, jobDescription, tailorVars,
                 appliedSuggestions, modalVars, storage, nextId, calls>>

AppendSuggestionToOriginal(project, text) ==
  LET baseResponsibilities ==
        IF Truthy(Get(project, "responsibilities"))
        THEN project.responsibilities ELSE <<>>
  IN  Trim(baseResponsibilities \o <<"\n">> \o text)

\* `${baseResponsibilities}\n${suggestion.suggestion}`.trim()
AppendSuggestion(project, text) ==
  LET baseResponsibilities ==
        IF Truthy(Get(project, "enhancedResponsibilities"))
        THEN project.enhancedResponsibilities
        ELSE IF Truthy(Get(project, "responsibilities"))
             THEN project.responsibilities ELSE <<>>
  IN  Trim(baseResponsibilities \o <<"\n">> \o text)

\* The projects list handleApplySuggestion hands to updateResumeData
ApplySuggestion(projects, projectIndex, text) ==
  [projects EXCEPT ![projectIndex] =
     Spread(@, [enhancedResponsibilities |-> AppendSuggestion(@, text)])]

\* appliedSuggestions.includes(sugg.suggestion)
isApplied(sugg) == sugg.suggestion \in Elems(appliedSuggestions)

handleApplySuggestion(suggestion) ==
  /\ mounted
  /\ ~isApplied(suggestion)
  /\ LET projectIndex ==
           FindIndex(currentResumeData.projects,
                     LAMBDA q : Get(q, "id") = suggestion.projectId)
     IN  IF projectIndex = 0
         THEN UNCHANGED <<appVars, jobDescription, storage, matchAnalysis,
                          appliedSuggestions>>
         ELSE /\ Len(AppendSuggestion(currentResumeData.projects[projectIndex],
                                      suggestion.suggestion)) <= MaxTextLen
              /\ LET u == UpdateResumeData(
                            currentProfileId,
                            [projects |->
                               ApplySuggestion(currentResumeData.projects,
                                               projectIndex,
                                               suggestion.suggestion)])
                 IN  Render(u[1], TRUE, currentProfileId, u[2], jobDescription,
                            matchAnalysis,
                            Append(appliedSuggestions, suggestion.suggestion))
  /\ Handled("handleApplySuggestion")
  /\ UNCHANGED <<keyVars, tailorVars, loadingAnalysis, analysisError,
                 analysisReqs, modalVars, nextId, calls>>

-----------------------------------------------------------------------------
(* ProjectEnhancementModal *)

openEnhancementModal(project) ==
  /\ mounted
  /\ isApiKeyConfigured
  /\ enhanceModal = NULL
  /\ enhanceModal' =
       Some([project |-> project, loading |-> FALSE, error |-> NULL,
             enhancedData |-> NULL, apiKey |-> NULL,
             currentDescription |-> Get(project, "description"),
             currentResponsibilities |-> Get(project, "responsibilities"),
             currentTools |-> Get(project, "tools"),
             currentDatabase |-> <<>>, currentCloud |-> <<>>,
             currentDashboard |-> <<>>])
  /\ Handled("openEnhancementModal")
  /\ UNCHANGED <<appVars, keyVars, jobDescription, tailorVars, analysisVars,
                 uploadModal, extractReqs, storage, nextId, calls>>

closeEnhancementModal ==
  /\ mounted
  /\ enhanceModal # NULL
  /\ enhanceModal' = NULL
  /\ Handled("closeEnhancementModal")
  /\ UNCHANGED <<appVars, keyVars, jobDescription, tailorVars, analysisVars,
                 uploadModal, extractReqs, storage, nextId, calls>>

\* ProjectEnhancementModal.handleEnhance up to its await
handleEnhance ==
  /\ mounted
  /\ enhanceModal # NULL
  /\ ~(The(enhanceModal).loading \/ ~isApiKeyConfigured)
  /\ calls < MaxCalls
  /\ calls' = calls + 1
  /\ enhanceModal' =
       Some([The(enhanceModal) EXCEPT !.loading = TRUE, !.error = NULL,
                                      !.enhancedData = NULL,
                                      !.apiKey = effectiveApiKey])
  /\ Handled("handleEnhance")
  /\ UNCHANGED <<appVars, keyVars, jobDescription, tailorVars, analysisVars,
                 uploadModal, extractReqs, storage, nextId>>

\* ProjectEnhancementModal.handleEnhance from its await on, in a modal that
\* is still open
enhanceSettled(outcome) ==
  /\ mounted
  /\ enhanceModal # NULL
  /\ The(enhanceModal).loading
  /\ LET m == The(enhanceModal)
         result == enhanceProject(m.apiKey, outcome)
     IN  /\ returned' = IF result.ok
                        THEN Some([call |-> "enhanceProject",
                                   value |-> result.value])
                        ELSE NULL
         /\ enhanceModal' =
              IF result.ok
              THEN Some([m EXCEPT
                     !.loading = FALSE,
                     !.enhancedData = Some(result.value),
                     !.currentDescription =
                        Get(result.value, "enhancedDescription"),
                     !.currentResponsibilities =
                        Get(result.value, "enhancedResponsibilities"),
                     !.currentTools = Get(result.value, "enhancedTools"),
                     !.currentDatabase =
                        Get(result.value, "suggestedDatabase"),
                     !.currentCloud = Get(result.value, "suggestedCloud"),
                     !.currentDashboard =
                        Get(result.value, "suggestedDashboard")])
              ELSE Some([m EXCEPT
                     !.loading = FALSE,
                     !.error =
                        MessageOr(
                          result.error,
                          <<"An unexpected error occurred during ",
                            "enhancement.">>)])
         /\ lastOp' = IF result.ok THEN "enhanceSet" ELSE "enhanceRejected"
  /\ unloaded' = NULL
  /\ UNCHANGED <<mounted, appVars, keyVars, jobDescription, tailorVars,
                 analysisVars, uploadModal, extractReqs, storage, nextId, calls>>

CurrentFields ==
  {"currentDescription", "currentResponsibilities", "currentTools",
   "currentDatabase", "currentCloud", "currentDashboard"}

\* The onChange of one of the six editable fields, which the modal shows
\* once it holds enhancedData
setCurrentField(field, value) ==
  /\ mounted
  /\ enhanceModal # NULL
  /\ The(enhanceModal).enhancedData # NULL
  /\ field \in CurrentFields
  /\ enhanceModal' = Some([The(enhanceModal) EXCEPT ![field] = value])
  /\ Handled("setCurrentField")
  /\ UNCHANGED <<appVars, keyVars, jobDescription, tailorVars, analysisVars,
                 uploadModal, extractReqs, storage, nextId, calls>>

\* The record ProjectEnhancementModal.handleSave hands to onSave
FinalEnhancedProject(m) ==
  Defined(Spread(m.project,
                 [enhancedDescription |-> m.currentDescription,
                  enhancedResponsibilities |-> m.currentResponsibilities,
                  enhancedTools |-> m.currentTools,
                  suggestedDatabase |-> m.currentDatabase,
                  suggestedCloud |-> m.currentCloud,
                  suggestedDashboard |-> m.currentDashboard]))

\* handleSave with the Save button enabled whether or not the modal holds
\* enhancedData
handleSaveEnhancedProjectUngated ==
  /\ enhanceModal # NULL
  /\ Edit("handleSaveEnhancedProject",
          [projects |-> ReplaceById(currentResumeData.projects,
                                    FinalEnhancedProject(The(enhanceModal)))])
  /\ enhanceModal' = NULL
  /\ UNCHANGED <<uploadModal, extractReqs, nextId, calls>>

\* ProjectEnhancementModal.handleSave: onSave is handleSaveEnhancedProject,
\* onClose is closeEnhancementModal
handleSaveEnhancedProject ==
  /\ enhanceModal # NULL
  /\ The(enhanceModal).enhancedData # NULL
  /\ Edit("handleSaveEnhancedProject",
          [projects |-> ReplaceById(currentResumeData.projects,
                                    FinalEnhancedProject(The(enhanceModal)))])
  /\ enhanceModal' = NULL
  /\ UNCHANGED <<uploadModal, extractReqs, nextId, calls>>

-----------------------------------------------------------------------------
(* ResumeUploadModal and handleSaveExtractedResumeData *)

handleOpenResumeUploadModal ==
  /\ mounted
  /\ uploadModal = NULL
  /\ uploadModal' = Some([rawResumeText |-> <<>>, loading |-> FALSE,
                          error |-> NULL])
  /\ Handled("handleOpenResumeUploadModal")
  /\ UNCHANGED <<appVars, keyVars, jobDescription, tailorVars, analysisVars,
                 enhanceModal, extractReqs, storage, nextId, calls>>

\* The pending calls once the modal instance that issued them is unmounted
Orphaned(reqs) == Map(reqs, LAMBDA r : [r EXCEPT !.live = FALSE])

handleCloseResumeUploadModal ==
  /\ mounted
  /\ uploadModal # NULL
  /\ uploadModal' = NULL
  /\ extractReqs' = Orphaned(extractReqs)
  /\ Handled("handleCloseResumeUploadModal")
  /\ UNCHANGED <<appVars, keyVars, jobDescription, tailorVars, analysisVars,
                 enhanceModal, storage, nextId, calls>>

setRawResumeText(value) ==
  /\ mounted
  /\ uploadModal # NULL
  /\ value # The(uploadModal).rawResumeText
  /\ uploadModal' = Some([The(uploadModal) EXCEPT !.rawResumeText = value])
  /\ Handled("setRawResumeText")
  /\ UNCHANGED <<appVars, keyVars, jobDescription, tailorVars, analysisVars,
                 enhanceModal, extractReqs, storage, nextId, calls>>

\* ResumeUploadModal.handleParseResume up to its await
handleParseResume ==
  /\ mounted
  /\ uploadModal # NULL
  /\ LET m == The(uploadModal)
     IN  /\ ~(m.loading \/ ~Truthy(Trim(m.rawResumeText))
                \/ ~isApiKeyConfigured)
         /\ Len(extractReqs) < MaxExtractReqs
         /\ calls < MaxCalls
         /\ calls' = calls + 1
         /\ uploadModal' = Some([m EXCEPT !.loading = TRUE, !.error = NULL])
         /\ extractReqs' = Append(extractReqs,
                                  [apiKey |-> effectiveApiKey,
                                   rawResumeText |-> m.rawResumeText,
                                   live |-> TRUE])
  /\ Handled("handleParseResume")
  /\ UNCHANGED <<appVars, keyVars, jobDescription, tailorVars, analysisVars,
                 enhanceModal, storage, nextId>>

\* list.map(x => ({...x, id: x.id || generateId()})), the ids generated
\* so far being n
RECURSIVE WithIds(_, _)
WithIds(list, n) ==
  IF list = <<>> THEN <<>>
  ELSE IF Truthy(Get(Head(list), "id"))
       THEN <<Head(list)>> \o WithIds(Tail(list), n)
       ELSE <<Spread(Head(list), [id |-> GenId(n + 1)])>>
            \o WithIds(Tail(list), n + 1)

MissingIds(list) ==
  Cardinality({i \in 1..Len(list) : ~Truthy(Get(list[i], "id"))})

\* The profile handleSaveExtractedResumeData appends
ExtractedProfile(extractedData, n) ==
  [id |-> GenId(n + 1),
   name |-> UPLOADED_PROFILE_NAME,
   resumeData |->
     [personalInfo |-> extractedData.personalInfo,
      education |-> WithIds(extractedData.education, n + 1),
      projects |-> WithIds(extractedData.projects,
                           n + 1 + MissingIds(extractedData.education)),
      summary |-> extractedData.summary,
      skills |-> extractedData.skills]]

ExtractedIds(extractedData) ==
  1 + MissingIds(extractedData.education) + MissingIds(extractedData.projects)

\* ResumeUploadModal.handleParseResume from its await on: onSave is
\* handleSaveExtractedResumeData, onClose is handleCloseResumeUploadModal
extractSettled(i, outcome) ==
  /\ mounted
  /\ i \in 1..Len(extractReqs)
  /\ LET req == extractReqs[i]
         rest == Without(extractReqs, i)
         result == extractResumeData(req.apiKey, req.rawResumeText, outcome)
         threw == ~Has(result.value, "education")
                    \/ ~Has(result.value, "projects")
         failure == IF ~result.ok
                    THEN MessageOr(
                           result.error,
                           <<"An unexpected error occurred during AI resume ",
                             "parsing.">>)
                    ELSE TypeErrorMessage
     IN  /\ returned' = IF result.ok
                        THEN Some([call |-> "extractResumeData",
                                   value |-> result.value])
                        ELSE NULL
         /\ IF result.ok /\ ~threw
            THEN /\ Len(profiles) < MaxProfiles
                 /\ nextId + ExtractedIds(result.value) <= MaxIds
                 /\ LET newProfile == ExtractedProfile(result.value, nextId)
                    IN  RenderApp(Append(profiles, newProfile), TRUE,
                                  newProfile.id, newProfile.resumeData)
                 /\ nextId' = nextId + ExtractedIds(result.value)
                 /\ uploadModal' = NULL
                 /\ extractReqs' = Orphaned(rest)
                 /\ lastOp' = "handleSaveExtractedResumeData"
            ELSE /\ uploadModal' =
                      IF req.live
                      THEN Some([The(uploadModal) EXCEPT
                                   !.loading = FALSE, !.error = failure])
                      ELSE uploadModal
                 /\ extractReqs' = rest
                 /\ lastOp' = "extractRejected"
                 /\ UNCHANGED <<appVars, jobDescription, storage, nextId,
                                matchAnalysis, appliedSuggestions>>
  /\ unloaded' = NULL
  /\ UNCHANGED <<mounted, keyVars, tailorVars, loadingAnalysis, analysisError,
                 analysisReqs, enhanceModal, calls>>

-----------------------------------------------------------------------------
(* What the environment may answer *)

ServiceFailures == {Threw("API_KEY"), Threw("network"), Garbage}

\* All sequences over S of at most n elements
SeqsUpTo(S, n) == UNION {[1..k -> S] : k \in 0..n}

\* An enhanced project as the tailoring schema wants it, for project q: the
\* nine fields of q, the role rewritten, and the six enhancement fields
ValidEnhanced(q) ==
  Spread(Spread(Defined([f \in ProjectFields |-> Get(q, f)]),
                [role |-> <<"r">>]),
         [f \in EnhancementFields |-> <<"e">>])

\* One that lacks required fields
PartialEnhanced(q) ==
  Defined([id |-> Get(q, "id"), enhancedDescription |-> <<"e">>])

\* One for a project the resume does not hold
UnknownEnhanced == ValidEnhanced(Spread(INITIAL_PROJECT, [id |-> <<"ai">>]))

EnhancedChoices(resume) ==
  {ValidEnhanced(resume.projects[i]) : i \in 1..Len(resume.projects)}
    \cup {PartialEnhanced(resume.projects[i]) : i \in 1..Len(resume.projects)}
    \cup {UnknownEnhanced}

TailoredValues(resume) ==
  {[summary |-> <<"s">>, skills |-> <<<<"k">>>>]}
    \cup {[summary |-> <<"s">>, skills |-> <<<<"k">>>>, enhancedProjects |-> eps] :
            eps \in SeqsUpTo(EnhancedChoices(resume), MaxProjects)}

TailorOutcomes(resume) ==
  ServiceFailures \cup {JsonText(v) : v \in TailoredValues(resume)}

SuggestionChoices(resume) ==
  {[projectId |-> id, projectName |-> <<"n">>, suggestion |-> <<"x">>] :
     id \in {Get(resume.projects[i], "id") : i \in 1..Len(resume.projects)}
              \cup {<<"ai">>}}

AnalysisValues(resume) ==
  {[matchPercentage |-> <<"50">>, matchSummary |-> <<"m">>,
    missingKeywords |-> <<>>, improvementSuggestions |-> ss] :
     ss \in SeqsUpTo(SuggestionChoices(resume), 1)}

AnalysisOutcomes(resume) ==
  ServiceFailures \cup {JsonText(v) : v \in AnalysisValues(resume)}

EnhancementValues ==
  {[f \in EnhancementFields |-> <<"e">>],
   [enhancedDescription |-> <<"e">>]}

EnhanceOutcomes == ServiceFailures \cup {JsonText(v) : v \in EnhancementValues}

ExtractedProject(id) == Defined(Spread(INITIAL_PROJECT, [id |-> id]))

ExtractionValues ==
  {[personalInfo |-> Spread(INITIAL_PERSONAL_INFO, [name |-> <<"u">>]),
    education |-> <<>>, projects |-> <<ExtractedProject(<<"x1">>)>>,
    summary |-> <<"s">>, skills |-> <<<<"k">>>>],
   [personalInfo |-> Spread(INITIAL_PERSONAL_INFO, [name |-> <<"u">>]),
    education |-> <<>>, projects |-> <<ExtractedProject(UNDEF)>>,
    summary |-> <<"s">>, skills |-> <<>>],
   [personalInfo |-> INITIAL_PERSONAL_INFO, summary |-> <<>>, skills |-> <<>>]}

ExtractOutcomes == ServiceFailures \cup {JsonText(v) : v \in ExtractionValues}


-----------------------------------------------------------------------------
(* The next-state relations *)

TypeJobDescription == \E v \in JobDescriptionInputs : setJobDescription(v)

SelectProfile == \E i \in 1..Len(profiles) : handleSelectProfile(profiles[i].id)

RenameProfile ==
  \E i \in 1..Len(profiles), v \in NameInputs :
    handleUpdateProfileName(profiles[i].id, v)

DeleteProfile == \E i \in 1..Len(profiles) : handleDeleteProfile(profiles[i].id)

ChangePersonalInfo ==
  \E f \in {"name"}, v \in TextInputs :
    handlePersonalInfoChange(f, v)

ChangeEducation ==
  \E i \in 1..Len(currentResumeData.education),
     f \in {"degree"}, v \in TextInputs :
    handleUpdateEducation(
      FormChange(currentResumeData.education,
                 currentResumeData.education[i].id, f, v))

ChangeProject ==
  \E i \in 1..Len(currentResumeData.projects),
     f \in {"role"}, v \in TextInputs :
    handleUpdateProject(
      FormChange(currentResumeData.projects,
                 Get(currentResumeData.projects[i], "id"), f, v))

\* A click on the Generate Tailored Resume button, which is not disabled
GenerateTailoredResume == ~tailorDisabled /\ handleGenerateTailoredResume

\* A click on the Analyze Match button, which is not disabled
AnalyzeMatch == ~analyzeDisabled /\ handleAnalyzeMatch

TailorAnswered ==
  \E i \in 1..Len(tailorReqs) :
    \E o \in TailorOutcomes(tailorReqs[i].resume) : tailorSettled(i, o)

AnalysisAnswered ==
  \E i \in 1..Len(analysisReqs) :
    \E o \in AnalysisOutcomes(analysisReqs[i].resume) : analysisSettled(i, o)

ApplyASuggestion ==
  /\ matchAnalysis # NULL
  /\ \E i \in 1..Len(The(matchAnalysis).improvementSuggestions) :
       handleApplySuggestion(The(matchAnalysis).improvementSuggestions[i])

OpenEnhancementModal ==
  \E i \in 1..Len(currentResumeData.projects) :
    openEnhancementModal(currentResumeData.projects[i])

EnhanceAnswered == \E o \in EnhanceOutcomes : enhanceSettled(o)

ExtractAnswered ==
  \E i \in 1..Len(extractReqs), o \in ExtractOutcomes : extractSettled(i, o)

Next ==
  \/ \E env \in EnvApiKeys : MountWith(env)
  \/ Reload
  \/ \E v \in {<<" ">>, <<"k">>} : handleManualApiKeyChange(v)
  \/ handleSaveApiKey
  \/ TypeJobDescription
  \/ SelectProfile
  \/ handleNewProfile
  \/ RenameProfile
  \/ DeleteProfile
  \/ ChangePersonalInfo
  \/ ChangeEducation
  \/ handleAddEducation
  \/ \E i \in 1..Len(currentResumeData.education) :
       handleRemoveEducation(currentResumeData.education[i].id)
  \/ ChangeProject
  \/ handleAddProject
  \/ \E i \in 1..Len(currentResumeData.projects) :
       handleRemoveProject(Get(currentResumeData.projects[i], "id"))
  \/ GenerateTailoredResume
  \/ closeLengthModal
  \/ startResumeGeneration
  \/ TailorAnswered
  \/ AnalyzeMatch
  \/ AnalysisAnswered
  \/ ApplyASuggestion
  \/ OpenEnhancementModal
  \/ closeEnhancementModal
  \/ handleEnhance
  \/ EnhanceAnswered
  \/ \E f \in CurrentFields : setCurrentField(f, <<"t">>)
  \/ handleSaveEnhancedProject
  \/ handleOpenResumeUploadModal
  \/ handleCloseResumeUploadModal
  \/ \E v \in {<<>>, <<"cv">>} : setRawResumeText(v)
  \/ handleParseResume
  \/ ExtractAnswered

Spec == Init /\ [][Next]_vars

-----------------------------------------------------------------------------
(* Profiles, their persistence and the forms, with no API key in the       *)
(* environment                                                             *)

NextStore ==
  \/ MountWith(NULL)
  \/ Reload
  \/ SelectProfile
  \/ handleNewProfile
  \/ RenameProfile
  \/ DeleteProfile
  \/ ChangePersonalInfo
  \/ handleAddProject

SpecStore == InitFrom(InitialStorages) /\ [][NextStore]_vars

-----------------------------------------------------------------------------
(* Tailoring and match analysis of a stored resume, which the user may go  *)
(* on editing while a request is pending                                   *)

NextTailor ==
  \/ MountWith(NULL)
  \/ TypeJobDescription
  \/ SelectProfile
  \/ ChangeProject
  \/ GenerateTailoredResume
  \/ closeLengthModal
  \/ startResumeGeneration
  \/ TailorAnswered
  \/ AnalyzeMatch
  \/ AnalysisAnswered

SpecTailor == InitFrom(WorkedStorages) /\ [][NextTailor]_vars

-----------------------------------------------------------------------------
(* The handlers that rewrite a project or an education in place *)

NextEdit ==
  \/ MountWith(NULL)
  \/ TypeJobDescription
  \/ ChangeEducation
  \/ ChangeProject
  \/ AnalyzeMatch
  \/ AnalysisAnswered
  \/ ApplyASuggestion
  \/ OpenEnhancementModal
  \/ closeEnhancementModal
  \/ handleEnhance
  \/ EnhanceAnswered
  \/ setCurrentField("currentTools", <<"t">>)
  \/ handleSaveEnhancedProject

SpecEdit == InitFrom(WorkedStorages) /\ [][NextEdit]_vars

-----------------------------------------------------------------------------
(* Creating, uploading, renaming, selecting and deleting profiles, over a  *)
(* store that holds an API key                                             *)

ProfileStorages ==
  { [EmptyStorage EXCEPT !.gemini_api_key = <<"k">>],
    [resumeProfiles |->
       Stringify(<<StoredProfile(<<"s1">>, <<"A">>),
                   StoredProfile(<<"s2">>, <<"B">>),
                   StoredProfile(<<"s3">>, <<"C">>)>>),
     lastSelectedProfileId |-> <<"s2">>,
     gemini_api_key |-> <<"k">>] }

NextProfiles ==
  \/ MountWith(NULL)
  \/ SelectProfile
  \/ handleNewProfile
  \/ RenameProfile
  \/ DeleteProfile
  \/ \E i, j \in 1..Len(profiles) :
       handleDeleteProfileTwice(profiles[i].id, profiles[j].id)
  \/ handleOpenResumeUploadModal
  \/ handleCloseResumeUploadModal
  \/ setRawResumeText(<<"cv">>)
  \/ handleParseResume
  \/ ExtractAnswered

SpecProfiles == InitFrom(ProfileStorages) /\ [][NextProfiles]_vars

-----------------------------------------------------------------------------
(* Every handler that calls updateResumeData, on the resume of one of two  *)
(* profiles, with the user free to select the other profile at any time.   *)
(* The service answers as its schemas ask: a tailoring request with one    *)
(* enhanced project for each project of the resume, a match analysis with  *)
(* one suggestion for the first project, an enhancement with all fields.   *)

NextResume ==
  \/ MountWith(NULL)
  \/ SelectProfile
  \/ setJobDescription(<<"j">>)
  \/ ChangePersonalInfo
  \/ ChangeEducation
  \/ /\ currentResumeData.projects # <<>>
     /\ handleUpdateProject(
          Spread(currentResumeData.projects[1], [role |-> <<"a">>]))
  \/ GenerateTailoredResume
  \/ startResumeGeneration
  \/ /\ tailorReqs # <<>>
     /\ tailorSettled(
          1, JsonText([summary |-> <<"s">>, skills |-> <<<<"k">>>>,
                       enhancedProjects |->
                         [k \in 1..Len(tailorReqs[1].resume.projects) |->
                            ValidEnhanced(tailorReqs[1].resume.projects[k])]]))
  \/ AnalyzeMatch
  \/ /\ analysisReqs # <<>>
     /\ analysisSettled(1, JsonText([matchPercentage |-> <<"50">>,
                                       matchSummary |-> <<"m">>,
                                       missingKeywords |-> <<>>,
                                       improvementSuggestions |->
            <<[projectId |-> <<"p1">>, projectName |-> <<"n">>,
                suggestion |-> <<"x">>]>>]))
  \/ ApplyASuggestion
  \/ /\ currentResumeData.projects # <<>>
     /\ openEnhancementModal(currentResumeData.projects[1])
  \/ handleEnhance
  \/ enhanceSettled(JsonText([f \in EnhancementFields |-> <<"e">>]))
  \/ handleSaveEnhancedProject

SpecResume == InitFrom(WorkedStorages) /\ [][NextResume]_vars

-----------------------------------------------------------------------------
(* The two AI requests of App from a store with or without an API key: the *)
(* clicks on the two buttons, the two handlers called while their buttons  *)
(* are disabled for want of a key or of a job description, and the         *)
(* answers.  A call of the service returns or throws: every pending        *)
(* request is answered in the end.                                         *)

NextRequests ==
  \/ MountWith(NULL)
  \/ TypeJobDescription
  \/ GenerateTailoredResume
  \/ actionButtonDisabled /\ handleGenerateTailoredResume
  \/ closeLengthModal
  \/ startResumeGeneration
  \/ TailorAnswered
  \/ AnalyzeMatch
  \/ actionButtonDisabled /\ handleAnalyzeMatch
  \/ AnalysisAnswered

SpecRequests ==
  /\ Init
  /\ [][NextRequests]_vars
  /\ WF_vars(TailorAnswered)
  /\ WF_vars(AnalysisAnswered)

-----------------------------------------------------------------------------
(* Applying the suggestions of a match analysis.  The service answers with *)
(* two suggestions of the same text for the two projects, with two         *)
(* suggestions for the first project, the second ending in a blank, or     *)
(* with a suggestion for a project the resume does not hold.               *)

NextSuggest ==
  \/ MountWith(NULL)
  \/ setJobDescription(<<"j">>)
  \/ \E i \in 1..Len(currentResumeData.projects) :
       handleUpdateProject(
         FormChange(currentResumeData.projects,
                    Get(currentResumeData.projects[i], "id"),
                    "responsibilities", <<"a">>))
  \/ AnalyzeMatch
  \/ /\ analysisReqs # <<>>
     /\ \E ss \in
            {<<[projectId |-> <<"p1">>, projectName |-> <<"n">>,
                suggestion |-> <<"x">>],
               [projectId |-> <<"p2">>, projectName |-> <<"n">>,
                suggestion |-> <<"x">>]>>,
             <<[projectId |-> <<"p1">>, projectName |-> <<"n">>,
                suggestion |-> <<"x">>],
               [projectId |-> <<"p1">>, projectName |-> <<"n">>,
                suggestion |-> <<"y", " ">>]>>,
             <<[projectId |-> <<"ai">>, projectName |-> <<"n">>,
                suggestion |-> <<"x">>]>>} :
          analysisSettled(1, JsonText([matchPercentage |-> <<"50">>,
                                       matchSummary |-> <<"m">>,
                                       missingKeywords |-> <<>>,
                                       improvementSuggestions |-> ss]))
  \/ ApplyASuggestion

SpecSuggest == InitFrom(WorkedStorages) /\ [][NextSuggest]_vars

-----------------------------------------------------------------------------
(* Properties *)

C2_NoProjectLost ==
  [][\A n \in 1..Len(tailorReqs) :
       (/\ lastOp' = "tailorMerged"
        /\ tailorReqs' = Without(tailorReqs, n)
        /\ currentProfileId' = tailorReqs[n].profileId) =>
         \A j \in 1..Len(tailorReqs[n].resume.projects) :
           Get(tailorReqs[n].resume.projects[j], "id")
             \in Elems(Ids(currentResumeData'.projects))
    ]_vars

\* C3: handleUpdateProject, handleUpdateEducation, handleSaveEnhancedProject
\* and handleApplySuggestion leave the sequence of ids of the projects list
\* and of the education list of the current resume as it was.
C3_IdsPreserved ==
  [][lastOp' \in {"handleUpdateProject", "handleUpdateEducation",
                  "handleSaveEnhancedProject", "handleApplySuggestion"} =>
       /\ Ids(currentResumeData'.projects) = Ids(currentResumeData.projects)
       /\ Ids(currentResumeData'.education) = Ids(currentResumeData.education)
    ]_vars

\* An enhanced project was saved over the second of two projects
C3_EnhancedSaved ==
  /\ lastOp = "handleSaveEnhancedProject"
  /\ Len(currentResumeData.projects) = 2
  /\ Has(currentResumeData.projects[2], "enhancedDescription")
  /\ ~Has(currentResumeData.projects[1], "enhancedDescription")

\* C4: after a tailoring response is merged into the current resume, every
\* project of the resume has an id that a project of the resume had when the
\* request was issued.
C4_NoUnknownId ==
  [][\A n \in 1..Len(tailorReqs) :
       (/\ lastOp' = "tailorMerged"
        /\ tailorReqs' = Without(tailorReqs, n)
        /\ currentProfileId' = tailorReqs[n].profileId) =>
         \A k \in 1..Len(currentResumeData'.projects) :
           Get(currentResumeData'.projects[k], "id")
             \in Elems(Ids(tailorReqs[n].resume.projects))
    ]_vars

\* C5: a value that generateTailoredResume, extractResumeData,
\* analyzeResumeJobMatch or enhanceProject returned to its caller has every
\* field its response schema marks as required.
C5_ReturnedHasRequired ==
  returned # NULL =>
    LET call == The(returned).call
        value == The(returned).value
    IN  /\ call = "generateTailoredResume" =>
             /\ TailoredRequired \subseteq DOMAIN value
             /\ \A k \in 1..Len(value.enhancedProjects) :
                  TailoredProjectRequired
                    \subseteq DOMAIN value.enhancedProjects[k]
        /\ call = "extractResumeData" =>
             ExtractionRequired \subseteq DOMAIN value
        /\ call = "analyzeResumeJobMatch" =>
             /\ AnalysisRequired \subseteq DOMAIN value
             /\ \A k \in 1..Len(value.improvementSuggestions) :
                  SuggestionRequired
                    \subseteq DOMAIN value.improvementSuggestions[k]
        /\ call = "enhanceProject" =>
             EnhancementRequired \subseteq DOMAIN value

C7_FailureLeavesData ==
  [][/\ lastOp' \in {"startResumeGeneration", "handleAnalyzeMatch",
                     "tailorRejected", "tailorThrew", "analysisRejected"} =>
          profiles' = profiles /\ currentResumeData' = currentResumeData
     /\ lastOp' \in {"tailorRejected", "tailorThrew"} =>
          tailorError' \notin {NULL, <<>>} /\ ~loadingTailor'
     /\ lastOp' = "analysisRejected" =>
          analysisError' \notin {NULL, <<>>} /\ ~loadingAnalysis'
    ]_vars

\* A tailoring request has failed on a resume that an earlier response was
\* merged into
C7_TailorFailed ==
  /\ lastOp = "tailorRejected"
  /\ tailorError \notin {NULL, <<>>}
  /\ ~loadingTailor
  /\ \E k \in 1..Len(currentResumeData.projects) :
       Has(currentResumeData.projects[k], "enhancedDescription")

\* C8: once the application is mounted, the local-storage entry
\* resumeProfiles is the JSON text of profiles and, when currentProfileId is
\* not null, the entry lastSelectedProfileId is currentProfileId.
C8_StorageMirrorsState ==
  mounted =>
    /\ storage.resumeProfiles = Stringify(profiles)
    /\ currentProfileId # NULL =>
         storage.lastSelectedProfileId = currentProfileId

\* The first of two profiles was selected after the second had been current
C8_SelectionPersisted ==
  /\ mounted
  /\ lastOp = "handleSelectProfile"
  /\ Len(profiles) = 2
  /\ currentProfileId = profiles[1].id
  /\ profiles[1].resumeData # INITIAL_RESUME_DATA

\* C9: mounting after a reload gives the profiles list and the current
\* profile the page held when it was reloaded; mounting over a stored list
\* none of whose profiles has the stored lastSelectedProfileId selects the
\* first stored profile; mounting over no stored list, or an empty one,
\* gives exactly one profile, named "New Profile" and with empty resume
\* data, selects it and stores it.
C9_ReloadRoundTrip ==
  [][(~mounted /\ mounted') =>
       /\ unloaded # NULL =>
            /\ profiles' = The(unloaded).profiles
            /\ currentProfileId' = The(unloaded).currentProfileId
       /\ (storage.resumeProfiles # NULL
             /\ Len(Parse(storage.resumeProfiles)) > 0) =>
            /\ profiles' = Parse(storage.resumeProfiles)
            /\ (\A i \in 1..Len(profiles') :
                  profiles'[i].id # storage.lastSelectedProfileId) =>
                 currentProfileId' = profiles'[1].id
       /\ (storage.resumeProfiles = NULL
             \/ Len(Parse(storage.resumeProfiles)) = 0) =>
            /\ Len(profiles') = 1
            /\ profiles'[1].name = <<"New Profile">>
            /\ profiles'[1].resumeData = INITIAL_RESUME_DATA
            /\ currentProfileId' = profiles'[1].id
            /\ currentResumeData' = INITIAL_RESUME_DATA
            /\ storage'.resumeProfiles = Stringify(profiles')
            /\ storage'.lastSelectedProfileId = profiles'[1].id
    ]_vars

\* The page was reloaded with the second of two profiles current and an
\* edited resume, and has mounted again
C9_Remounted ==
  /\ lastOp = "mount"
  /\ unloaded # NULL
  /\ Len(profiles) = 2
  /\ currentProfileId = profiles[2].id
  /\ currentResumeData # INITIAL_RESUME_DATA

\* C10: handleNewProfile appends one profile with empty resume data to the
\* end of profiles, makes it the current profile and leaves the profiles
\* that were there as they are.
C10_ProfileAppended ==
  [][lastOp' = "handleNewProfile" =>
       /\ Len(profiles') = Len(profiles) + 1
       /\ SubSeq(profiles', 1, Len(profiles)) = profiles
       /\ profiles'[Len(profiles')].resumeData = INITIAL_RESUME_DATA
       /\ currentProfileId' = profiles'[Len(profiles')].id
       /\ currentResumeData' = INITIAL_RESUME_DATA
    ]_vars

\* A profile was created next to one whose resume had been edited
C10_ProfileCreated ==
  /\ lastOp = "handleNewProfile"
  /\ Len(profiles) = 2
  /\ profiles[1].resumeData # INITIAL_RESUME_DATA
  /\ currentProfileId = profiles[2].id

\* C11: once the mount effect has run, the profiles list is never empty.
C11_ProfilesNonEmpty == mounted => Len(profiles) > 0

\* Deleting the only profile was refused, the profile being an uploaded one
\* that was left alone by a delete of the profile it was uploaded next to
C11_LastProfileKept ==
  /\ lastOp = "handleDeleteProfile alert"
  /\ Len(profiles) = 1
  /\ profiles[1].name = UPLOADED_PROFILE_NAME

\* C12: handleDeleteProfile(id), called with more than one profile, removes
\* the one profile that has that id and leaves the others as they were and
\* in their order; the first remaining profile becomes current when the
\* deleted one was current, and currentProfileId stays otherwise.
C12_DeleteRemovesOne ==
  [][(/\ lastOp' \in {"handleDeleteProfile", "handleDeleteProfile alert"}
      /\ Len(profiles) > 1) =>
       \E i \in 1..Len(profiles) :
         /\ profiles' = Without(profiles, i)
         /\ \A k \in 1..Len(profiles') : profiles'[k].id # profiles[i].id
         /\ currentProfileId' =
              IF currentProfileId = profiles[i].id THEN profiles'[1].id
              ELSE currentProfileId
         /\ currentResumeData' =
              IF currentProfileId = profiles[i].id
              THEN profiles'[1].resumeData ELSE currentResumeData
    ]_vars

\* The second of three stored profiles was deleted while it was current, and
\* the first one is current now
C12_CurrentDeleted ==
  /\ lastOp = "handleDeleteProfile"
  /\ Ids(profiles) = <<<<"s1">>, <<"s3">>>>
  /\ currentProfileId = <<"s1">>
  /\ storage.lastSelectedProfileId = <<"s1">>

\* C13, as the code has it: the mount effect and every handler that runs
\* from the latest render (select, new profile, delete, rename, upload)
\* leave currentProfileId the id of a profile of the list; nothing is said
\* of two deletes that run from one render.
C13_CurrentAmongProfiles ==
  [][(/\ lastOp' # "handleDeleteProfile twice"
      /\ mounted =>
           \E i \in 1..Len(profiles) : profiles[i].id = currentProfileId) =>
       (mounted' =>
          \E i \in 1..Len(profiles') : profiles'[i].id = currentProfileId')
    ]_vars

\* An uploaded resume became the second profile and the current one
C13_UploadedIsCurrent ==
  /\ lastOp = "handleSaveExtractedResumeData"
  /\ Len(profiles) = 2
  /\ currentProfileId = profiles[2].id
  /\ profiles[2].name = UPLOADED_PROFILE_NAME

\* C13, as stated: once the mount effect has run, currentProfileId is the id
\* of a profile of the list, two deletes from one render included.
C13_CurrentAlwaysAmongProfiles ==
  mounted => \E i \in 1..Len(profiles) : profiles[i].id = currentProfileId

\* C14, as the code has it: a step of a handler that calls updateResumeData
\* (personal info, education, project, apply suggestion, save enhancement,
\* tailoring merge) changes the resumeData of no profile but the one whose
\* id was currentProfileId in the render the handler comes from, which is
\* the current profile for the handlers of user events and the profile the
\* request was issued for in the tailoring merge; it changes the id and the
\* name of no profile.
C14_OnlyOwnProfile ==
  [][lastOp' \in {"handlePersonalInfoChange", "handleUpdateEducation",
                  "handleAddEducation", "handleRemoveEducation",
                  "handleUpdateProject", "handleAddProject",
                  "handleRemoveProject", "handleApplySuggestion",
                  "handleSaveEnhancedProject", "tailorMerged"} =>
       LET own == IF lastOp' = "tailorMerged" THEN tailorReqs[1].profileId
                  ELSE currentProfileId
       IN  /\ Len(profiles') = Len(profiles)
           /\ \A i \in 1..Len(profiles) :
                /\ profiles'[i].id = profiles[i].id
                /\ profiles'[i].name = profiles[i].name
                /\ profiles[i].id # own =>
                     profiles'[i].resumeData = profiles[i].resumeData
    ]_vars

\* A tailoring response was merged into the first profile while the second
\* profile was the current one
C14_MergedIntoOther ==
  /\ lastOp = "tailorMerged"
  /\ Len(profiles) = 2
  /\ currentProfileId = profiles[2].id
  /\ profiles[1].resumeData.summary = <<"s">>
  /\ profiles[2].resumeData.summary = <<>>

\* C14, as stated: a step of a handler that calls updateResumeData changes
\* the resumeData of no profile but the current one, and the id and the name
\* of no profile.
C14_OnlyCurrentProfile ==
  [][lastOp' \in {"handlePersonalInfoChange", "handleUpdateEducation",
                  "handleAddEducation", "handleRemoveEducation",
                  "handleUpdateProject", "handleAddProject",
                  "handleRemoveProject", "handleApplySuggestion",
                  "handleSaveEnhancedProject", "tailorMerged"} =>
       /\ Len(profiles') = Len(profiles)
       /\ \A i \in 1..Len(profiles) :
            /\ profiles'[i].id = profiles[i].id
            /\ profiles'[i].name = profiles[i].name
            /\ profiles[i].id # currentProfileId =>
                 profiles'[i].resumeData = profiles[i].resumeData
    ]_vars

\* C15: when a tailoring response is merged after the user has selected
\* another profile than the one the request was issued for, the personalInfo
\* and the education of every profile stay as they were, and every profile
\* but the one the request was issued for stays as it was.
C15_MergeKeepsProfilesApart ==
  [][(/\ lastOp' = "tailorMerged"
      /\ currentProfileId # tailorReqs[1].profileId) =>
       \A i \in 1..Len(profiles) :
         /\ profiles'[i].resumeData.personalInfo
              = profiles[i].resumeData.personalInfo
         /\ profiles'[i].resumeData.education
              = profiles[i].resumeData.education
         /\ profiles[i].id # tailorReqs[1].profileId =>
              profiles'[i] = profiles[i]
    ]_vars

\* C16: a match analysis is set only from a request that was issued with
\* the job description and for the profile that are current when it is set,
\* and a step that changes the job description or the current profile
\* leaves no match analysis; so that a match analysis that is shown always
\* belongs to the current job description and the current profile.
C16_AnalysisIsCurrent ==
  [][/\ lastOp' = "analysisSet" =>
          /\ analysisReqs[1].jd = jobDescription'
          /\ analysisReqs[1].profileId = currentProfileId'
     /\ (jobDescription' # jobDescription
           \/ currentProfileId' # currentProfileId) =>
          matchAnalysis' = NULL
    ]_vars

\* C17: handleAnalyzeMatch and handleGenerateTailoredResume, called while
\* effectiveApiKey is null or the job description is blank, issue no AI
\* request, leave the length modal as it is, set their error to a non-empty
\* string and leave profiles, currentResumeData and both loading flags as
\* they are.
C17_NothingWithoutKeyOrJob ==
  [][(/\ lastOp' \in {"handleAnalyzeMatch", "handleGenerateTailoredResume"}
      /\ (effectiveApiKey = NULL \/ Trim(jobDescription) = <<>>)) =>
       /\ tailorReqs' = tailorReqs
       /\ analysisReqs' = analysisReqs
       /\ calls' = calls
       /\ isLengthModalVisible' = isLengthModalVisible
       /\ lastOp' = "handleAnalyzeMatch" =>
            analysisError' \notin {NULL, <<>>}
       /\ lastOp' = "handleGenerateTailoredResume" =>
            tailorError' \notin {NULL, <<>>}
       /\ profiles' = profiles
       /\ currentResumeData' = currentResumeData
       /\ loadingTailor' = loadingTailor
       /\ loadingAnalysis' = loadingAnalysis
    ]_vars

\* handleGenerateTailoredResume was called with a key and a blank job
\* description while a match analysis was pending, and has set its error
C17_RefusedBlankJob ==
  /\ lastOp = "handleGenerateTailoredResume"
  /\ effectiveApiKey # NULL
  /\ jobDescription = <<" ">>
  /\ tailorError =
       <<"Please paste a job description to tailor your resume.">>
  /\ ~isLengthModalVisible
  /\ loadingAnalysis

\* C18: loadingTailor is true exactly while a tailoring request is pending
\* and loadingAnalysis exactly while a match-analysis request is pending,
\* and whenever a loading flag is true it is false in some later state,
\* whether the request resolves or rejects.
C18_LoadingTracksRequests ==
  /\ [](loadingTailor <=> tailorReqs # <<>>)
  /\ [](loadingAnalysis <=> analysisReqs # <<>>)
  /\ (loadingTailor ~> ~loadingTailor)
  /\ (loadingAnalysis ~> ~loadingAnalysis)

\* A tailoring request was rejected and its flag is down while a
\* match-analysis request is still pending with its flag up
C18_OneSettledOnePending ==
  /\ lastOp = "tailorRejected"
  /\ ~loadingTailor /\ tailorReqs = <<>>
  /\ loadingAnalysis /\ analysisReqs # <<>>



\* C19: a step of handleApplySuggestion is, for one of the suggestions of
\* the analysis that was not applied yet, this: when a project of the
\* current resume has the suggestion's projectId, that project's
\* enhancedResponsibilities becomes the trimmed text of its base, a newline
\* and the suggestion, the base being its enhancedResponsibilities if not
\* empty, else its responsibilities if not empty, else the empty text;
\* every other field of the project, every other project and the rest of
\* the resume stay, and the suggestion's text is appended to
\* appliedSuggestions; when no project has that id, the resume, the
\* profiles and appliedSuggestions stay.
C19_SuggestionAppended ==
  [][lastOp' = "handleApplySuggestion" =>
       \E k \in 1..Len(The(matchAnalysis).improvementSuggestions) :
         LET sugg == The(matchAnalysis).improvementSuggestions[k]
             ps == currentResumeData.projects
             hit == {j \in 1..Len(ps) : Get(ps[j], "id") = sugg.projectId}
         IN  /\ sugg.suggestion \notin Elems(appliedSuggestions)
             /\ IF hit = {}
                THEN /\ currentResumeData' = currentResumeData
                     /\ profiles' = profiles
                     /\ appliedSuggestions' = appliedSuggestions
                ELSE \E j \in hit :
                  LET base ==
                        IF Get(ps[j], "enhancedResponsibilities")
                             \notin {UNDEF, <<>>}
                        THEN ps[j].enhancedResponsibilities
                        ELSE IF Get(ps[j], "responsibilities")
                                  \notin {UNDEF, <<>>}
                             THEN ps[j].responsibilities
                             ELSE <<>>
                      after == currentResumeData'.projects
                  IN  /\ Len(after) = Len(ps)
                      /\ Get(after[j], "enhancedResponsibilities")
                           = Trim(base \o <<"\n">> \o sugg.suggestion)
                      /\ \A f \in EnhancedProjectFields
                               \ {"enhancedResponsibilities"} :
                           Get(after[j], f) = Get(ps[j], f)
                      /\ \A i \in 1..Len(ps) : i # j => after[i] = ps[i]
                      /\ \A f \in DOMAIN currentResumeData \ {"projects"} :
                           currentResumeData'[f] = currentResumeData[f]
                      /\ appliedSuggestions'
                           = Append(appliedSuggestions, sugg.suggestion)
    ]_vars

\* A suggestion that ends in a blank was applied to a project that has
\* responsibilities of its own and to which a suggestion had been applied
\* before: it was appended to the enhanced text, and trimmed
C19_SecondApplied ==
  /\ lastOp = "handleApplySuggestion"
  /\ appliedSuggestions = <<<<"x">>, <<"y", " ">>>>
  /\ currentResumeData.projects[1].responsibilities = <<"a">>
  /\ currentResumeData.projects[1].enhancedResponsibilities
       = <<"x", "\n", "y">>

\* C20: a step of handleApplySuggestion that finds the project of its
\* suggestion applies one suggestion of the analysis that was not applied
\* yet: after it that suggestion is marked as applied, so that its button
\* is disabled, and every other suggestion of the analysis that was not
\* marked before is not marked after, so that its button is enabled.
C20_AppliedOnce ==
  [][(/\ lastOp' = "handleApplySuggestion"
      /\ appliedSuggestions' # appliedSuggestions) =>
       LET suggs == The(matchAnalysis).improvementSuggestions
       IN  \E k \in 1..Len(suggs) :
             /\ suggs[k].suggestion \notin Elems(appliedSuggestions)
             /\ suggs[k].suggestion \in Elems(appliedSuggestions')
             /\ \A m \in 1..Len(suggs) :
                  (m # k /\ suggs[m].suggestion \notin Elems(appliedSuggestions))
                    => suggs[m].suggestion \notin Elems(appliedSuggestions')
    ]_vars

====
